---- MODULE Spec2Model ----
(***************************************************************************)
(* CashMates (roomiesplit): the money utilities (to_decimal), the split    *)
(* validators, the CSV storage, the ledger engine (calculate_balances) and *)
(* the settlement optimizer (suggest_settlements, settlement stats).       *)
(*                                                                         *)
(* Decimal values are represented as integers counting thousandths         *)
(* (mills): 0.01 is Cent = 10 mills, 1.00 is Unit = 1000 mills.  A         *)
(* non-quantized Decimal such as 0.005 is 5.  A Python dict is a sequence  *)
(* of [user, balance] records in insertion order.                          *)
(***************************************************************************)
EXTENDS Integers, Sequences, FiniteSets, TLC

VARIABLES
    expenses_csv,      \* rows of expenses.csv, in append order
    splits_csv,        \* rows of splits.csv, in append order
    payments_csv,      \* rows of payments.csv, in append order
    expense_calls,     \* history: the expenses handed to save_expense
    payment_calls,     \* history: the arguments handed to save_payment
    pc,                \* "idle" | "ready" | "loop" | "done" | "stats" |
                       \* "to_decimal" | "converted" | "rounded" |
                       \* "validate" | "validate_splits" | "validated"
    group_id,          \* argument of the calculate_balances call, or NoGroup
    balances,          \* the balance map handed to suggest_settlements
    creditor_list,     \* locals of suggest_settlements
    debtor_list,
    creditor_idx,
    debtor_idx,
    settlement_amount,
    settlements,
    iterations,        \* number of executions of the while body (saturating)
    stats,             \* outcome of calculate_settlement_stats
    money_in,          \* the text handed to to_decimal
    money_out,         \* outcome of to_decimal(money_in)
    money_twice,       \* outcome of round_money on that result
    v_amount,          \* arguments of the split validators
    v_splits,
    v_result,          \* outcome of LedgerService.validate_expense_split
    v_verdict          \* outcome of Expense.validate_splits

vars == <<expenses_csv, splits_csv, payments_csv, expense_calls, payment_calls,
          pc, group_id, balances,
          creditor_list, debtor_list, creditor_idx, debtor_idx,
          settlement_amount, settlements, iterations, stats,
          money_in, money_out, money_twice,
          v_amount, v_splits, v_result, v_verdict>>

storage_vars == <<expenses_csv, splits_csv, payments_csv,
                  expense_calls, payment_calls>>

money_vars == <<money_in, money_out, money_twice>>

validate_vars == <<v_amount, v_splits, v_result, v_verdict>>

\* the variables of the function calls that the ledger and the settlement
\* call leave alone
other_vars == <<stats, money_vars, validate_vars>>

call_vars == <<creditor_list, debtor_list, creditor_idx, debtor_idx,
               settlement_amount, settlements, iterations>>

(***************************************************************************)
(* Bounds                                                                  *)
(***************************************************************************)
MaxExpenses == 2
MaxPayments == 1
MaxCents == 3
MaxMills == 12
MaxIter == 8
MaxText == 5
MaxSplits == 3

(***************************************************************************)
(* utils/money.py                                                          *)
(***************************************************************************)
Cent == 10

Unit == 100 * Cent

Abs(x) == IF x < 0 THEN 0 - x ELSE x

Min(a, b) == IF a <= b THEN a ELSE b

Max(a, b) == IF a >= b THEN a ELSE b

\* mutant: ROUND_HALF_EVEN, a tie going to the even cent
Quantize_half_even(num, den) ==
    LET q    == ((2 * Abs(num)) + (Cent * den)) \div (2 * Cent * den)
        tie  == ((2 * Abs(num)) + (Cent * den)) % (2 * Cent * den) = 0
        even == IF tie /\ q % 2 = 1 THEN q - 1 ELSE q
    IN  IF num < 0 THEN 0 - (even * Cent) ELSE even * Cent

\* Decimal.quantize(Decimal('0.01'), rounding=ROUND_HALF_UP) of the rational
\* num/den (in mills, den > 0): the nearest multiple of Cent, a tie going
\* away from zero.
Quantize(num, den) ==
    LET q == ((2 * Abs(num)) + (Cent * den)) \div (2 * Cent * den)
    IN  IF num < 0 THEN 0 - (q * Cent) ELSE q * Cent

\* mutant: the Decimal is returned with all the digits it was given
to_decimal_unrounded(amount) == amount

\* to_decimal of a Decimal given in mills: str() writes every digit and the
\* constructor reads them back, so only the quantize step changes the value
to_decimal(amount) == Quantize(amount, 1)

round_money(amount) == to_decimal(amount)

(***************************************************************************)
(* utils/money.py on text: to_decimal(amount) is                           *)
(* Decimal(str(amount)).quantize(...).  A text is a sequence of one-       *)
(* character strings.  The outcome of a call is a record: a Decimal with   *)
(* its value in mills, the Decimal NaN, or the exception the call raises.  *)
(***************************************************************************)
Digits == <<"0", "1", "2", "3", "4", "5", "6", "7", "8", "9">>

IsDigit(c) == \E i \in 1..10 : Digits[i] = c

DigitValue(c) == (CHOOSE i \in 1..10 : Digits[i] = c) - 1

\* the Decimal constructor reads its text without regard to case
Lower(c) == IF c = "N" THEN "n" ELSE IF c = "A" THEN "a" ELSE c

RECURSIVE Pow10(_)
Pow10(n) == IF n = 0 THEN 1 ELSE 10 * Pow10(n - 1)

RECURSIVE DigitsValue(_, _)
\* the integer written by the digits among the first n characters
DigitsValue(text, n) ==
    IF n = 0 THEN 0
    ELSE IF text[n] = "." THEN DigitsValue(text, n - 1)
    ELSE (10 * DigitsValue(text, n - 1)) + DigitValue(text[n])

\* Decimal(text): [sign] digits [. digits] or [sign] . digits gives the
\* number exactly, as the rational num/den in mills; [sign] nan [digits]
\* gives NaN; anything else raises decimal.InvalidOperation
\* (ConversionSyntax).  Exponents, underscores, surrounding blanks and
\* infinities are left out of the texts considered.
Decimal(text) ==
    LET signed == text # <<>> /\ text[1] \in {"-", "+"}
        body   == IF signed THEN Tail(text) ELSE text
        points == {i \in 1..Len(body) : body[i] = "."}
        is_number ==
            /\ \A i \in 1..Len(body) : IsDigit(body[i]) \/ body[i] = "."
            /\ Cardinality(points) <= 1
            /\ \E i \in 1..Len(body) : IsDigit(body[i])
        is_nan ==
            /\ Len(body) >= 3
            /\ <<Lower(body[1]), Lower(body[2]), Lower(body[3])>> = <<"n", "a", "n">>
            /\ \A i \in 4..Len(body) : IsDigit(body[i])
        frac == IF points = {} THEN 0
                ELSE Len(body) - (CHOOSE i \in points : TRUE)
        digits == DigitsValue(body, Len(body))
        \* digits / 10^frac, in mills: digits * 10^(3 - frac)
        magnitude == IF frac <= 3 THEN digits * Pow10(3 - frac) ELSE digits
    IN  IF is_number
        THEN [kind |-> "Decimal",
              num  |-> IF signed /\ text[1] = "-" THEN 0 - magnitude ELSE magnitude,
              den  |-> IF frac <= 3 THEN 1 ELSE Pow10(frac - 3)]
        ELSE IF is_nan THEN [kind |-> "NaN"]
        ELSE [kind |-> "InvalidOperation"]

\* d.quantize(Decimal('0.01'), rounding=ROUND_HALF_UP): a number is rounded,
\* a NaN is returned as it is, an exception of the constructor propagates
quantize(d) ==
    IF d.kind = "Decimal"
    THEN [kind |-> "Decimal", value |-> Quantize(d.num, d.den)]
    ELSE d

\* to_decimal of a text (str(text) is the text)
to_decimal_text(text) == quantize(Decimal(text))

RECURSIVE digits_of(_)
digits_of(n) ==
    IF n < 10 THEN <<Digits[n + 1]>>
    ELSE Append(digits_of(n \div 10), Digits[(n % 10) + 1])

\* mutant: the text is cut after the first fractional digit
str_one_digit(d) ==
    IF d.kind = "NaN" THEN <<"N", "a", "N">>
    ELSE LET cents == Abs(d.value) \div Cent
         IN  (IF d.value < 0 THEN <<"-">> ELSE <<>>)
             \o digits_of(cents \div 100)
             \o <<".", Digits[((cents % 100) \div 10) + 1]>>

\* str(d) of a result of to_decimal: a Decimal of two fractional digits is
\* written with both of them, a NaN as NaN
str(d) ==
    IF d.kind = "NaN" THEN <<"N", "a", "N">>
    ELSE LET cents == Abs(d.value) \div Cent
         IN  (IF d.value < 0 THEN <<"-">> ELSE <<>>)
             \o digits_of(cents \div 100)
             \o <<".", Digits[((cents % 100) \div 10) + 1],
                   Digits[(cents % 10) + 1]>>

\* round_money(amount) of a result of to_decimal: to_decimal(amount), which
\* goes through str(amount) again
round_money_again(d) == to_decimal_text(str(d))

(***************************************************************************)
(* dict helpers (insertion-ordered)                                        *)
(***************************************************************************)
Keys(d) == {d[i].user : i \in 1..Len(d)}

HasKey(d, k) == \E i \in 1..Len(d) : d[i].user = k

\* d[k] of a defaultdict(Decimal): Decimal() = 0 for a missing key
Get(d, k) ==
    IF HasKey(d, k)
    THEN d[CHOOSE i \in 1..Len(d) : d[i].user = k].balance
    ELSE 0

\* d[k] += v on a defaultdict(Decimal): a missing key is inserted at the end
AddTo(d, k, v) ==
    IF HasKey(d, k)
    THEN [i \in 1..Len(d) |->
            IF d[i].user = k THEN [user |-> k, balance |-> d[i].balance + v]
            ELSE d[i]]
    ELSE Append(d, [user |-> k, balance |-> v])

RECURSIVE SumTo(_, _)
SumTo(d, n) == IF n = 0 THEN 0 ELSE SumTo(d, n - 1) + d[n].balance

SumValues(d) == SumTo(d, Len(d))

(***************************************************************************)
(* models/expense.py                                                       *)
(***************************************************************************)
EQUAL == "equal"

EXACT == "exact"

PERCENT == "percent"

\* Split(...): __post_init__ quantizes the value
Split(expense_id, user_id, share_type, value) ==
    [expense_id |-> expense_id, user_id |-> user_id,
     share_type |-> share_type, value |-> to_decimal(value)]

\* Expense(...): __post_init__ quantizes the amount
Expense(id, gid, payer_id, amount, description, splits) ==
    [id |-> id, group_id |-> gid, payer_id |-> payer_id,
     amount |-> to_decimal(amount), description |-> description,
     splits |-> splits]

RECURSIVE values_sum(_, _)
\* sum(split.value for split in splits[:n])
values_sum(splits, n) ==
    IF n = 0 THEN 0 ELSE values_sum(splits, n - 1) + splits[n].value

\* Expense.split_total
split_total(expense) == values_sum(expense.splits, Len(expense.splits))

\* Expense.validate_splits: value == amount / len(splits) is compared as
\* value * len(splits) = amount
validate_splits(expense) ==
    IF expense.splits = <<>> THEN FALSE
    ELSE LET split_type == expense.splits[1].share_type
         IN  IF split_type = EQUAL
             THEN \A i \in 1..Len(expense.splits) :
                     expense.splits[i].value * Len(expense.splits) = expense.amount
             ELSE IF split_type = EXACT
             THEN split_total(expense) = expense.amount
             ELSE IF split_type = PERCENT
             THEN split_total(expense) = 100 * Unit
             ELSE FALSE

(***************************************************************************)
(* persistence/storage.py                                                  *)
(***************************************************************************)
\* mutant: the amount is written without its cents
expense_data_whole_units(expense) ==
    [id |-> expense.id, group_id |-> expense.group_id,
     payer_id |-> expense.payer_id,
     amount |-> (expense.amount \div Unit) * Unit,
     description |-> expense.description]

\* the row written to expenses.csv by save_expense
expense_data(expense) ==
    [id |-> expense.id, group_id |-> expense.group_id,
     payer_id |-> expense.payer_id, amount |-> expense.amount,
     description |-> expense.description]

\* the rows written to splits.csv by save_expense, one per split
split_data(expense) ==
    [i \in 1..Len(expense.splits) |->
        [expense_id |-> expense.splits[i].expense_id,
         user_id    |-> expense.splits[i].user_id,
         share_type |-> expense.splits[i].share_type,
         value      |-> expense.splits[i].value]]

\* mutant: the payer and the payee are written into each other's column
payment_data_reversed(payment_id, gid, from_user, to_user, amount) ==
    [id |-> payment_id, group_id |-> gid, from_user |-> to_user,
     to_user |-> from_user, amount |-> amount]

\* the row written to payments.csv by save_payment: str(amount) keeps
\* every digit of the amount it is given
payment_data(payment_id, gid, from_user, to_user, amount) ==
    [id |-> payment_id, group_id |-> gid, from_user |-> from_user,
     to_user |-> to_user, amount |-> amount]

\* mutant: every stored split is attached to every expense
expense_splits_all(rows, n, expense_id) ==
    [i \in 1..n |-> Split(rows[i].expense_id, rows[i].user_id,
                           rows[i].share_type, to_decimal(rows[i].value))]

RECURSIVE expense_splits(_, _, _)
\* the splits of load_expenses for one expense: the rows of splits.csv whose
\* expense_id is the expense's id
expense_splits(rows, n, expense_id) ==
    IF n = 0 THEN <<>>
    ELSE LET rest == expense_splits(rows, n - 1, expense_id)
         IN  IF rows[n].expense_id = expense_id
             THEN Append(rest, Split(rows[n].expense_id, rows[n].user_id,
                                     rows[n].share_type,
                                     to_decimal(rows[n].value)))
             ELSE rest

load_expenses(expenses_data, splits_data) ==
    [i \in 1..Len(expenses_data) |->
        Expense(expenses_data[i].id, expenses_data[i].group_id,
                expenses_data[i].payer_id,
                to_decimal(expenses_data[i].amount),
                expenses_data[i].description,
                expense_splits(splits_data, Len(splits_data),
                               expenses_data[i].id))]

load_payments(payments_data) ==
    [i \in 1..Len(payments_data) |->
        [id        |-> payments_data[i].id,
         group_id  |-> payments_data[i].group_id,
         from_user |-> payments_data[i].from_user,
         to_user   |-> payments_data[i].to_user,
         amount    |-> to_decimal(payments_data[i].amount)]]

(***************************************************************************)
(* services/ledger_service.py                                              *)
(***************************************************************************)
\* mutant: the records of every group are kept
group_records_all(records, n, gid) == SubSeq(records, 1, n)

\* [e for e in expenses if e.group_id == group_id], and the same for payments
RECURSIVE group_records(_, _, _)
group_records(records, n, gid) ==
    IF n = 0 THEN <<>>
    ELSE LET rest == group_records(records, n - 1, gid)
         IN  IF records[n].group_id = gid THEN Append(rest, records[n])
             ELSE rest

\* mutant: the percentage itself is debited, not the percentage of the amount
share_amount_unconverted(expense, split) == round_money(split.value)

\* the amount debited for one split: round_money(share_amount).  For a
\* percent split the rational (amount * value) / 100 is rounded once; amount
\* and value are multiples of Cent (quantized by Expense and Split), so the
\* product is formed from their cent counts to stay within TLC's integers.
share_amount(expense, split) ==
    IF split.share_type = PERCENT
    THEN Quantize((expense.amount \div Cent) * (split.value \div Cent), Unit)
    ELSE round_money(split.value)

\* mutant: only the first split of the expense is debited
process_splits_first_only(bal, expense, n) ==
    IF n = 0 THEN bal
    ELSE AddTo(bal, expense.splits[1].user_id,
               0 - share_amount(expense, expense.splits[1]))

\* for split in expense.splits: balances[split.user_id] -= share
RECURSIVE process_splits(_, _, _)
process_splits(bal, expense, n) ==
    IF n = 0 THEN bal
    ELSE LET before == process_splits(bal, expense, n - 1)
             split  == expense.splits[n]
         IN  AddTo(before, split.user_id, 0 - share_amount(expense, split))

\* one iteration of "for expense in group_expenses"
process_expense(bal, expense) ==
    process_splits(AddTo(bal, expense.payer_id, expense.amount),
                   expense, Len(expense.splits))

RECURSIVE process_expenses(_, _)
process_expenses(group_expenses, n) ==
    IF n = 0 THEN <<>>
    ELSE process_expense(process_expenses(group_expenses, n - 1),
                         group_expenses[n])

\* mutant: the recipient is credited and the sender debited
process_payment_reversed(bal, payment) ==
    AddTo(AddTo(bal, payment.from_user, 0 - payment.amount),
          payment.to_user, payment.amount)

\* one iteration of "for payment in group_payments"
process_payment(bal, payment) ==
    AddTo(AddTo(bal, payment.from_user, payment.amount),
          payment.to_user, 0 - payment.amount)

RECURSIVE process_payments(_, _, _)
process_payments(bal, group_payments, n) ==
    IF n = 0 THEN bal
    ELSE process_payment(process_payments(bal, group_payments, n - 1),
                         group_payments[n])

round_all(bal) ==
    [i \in 1..Len(bal) |->
        [user |-> bal[i].user, balance |-> round_money(bal[i].balance)]]

calculate_balances_of(expenses_data, splits_data, payments_data, gid) ==
    LET expenses       == load_expenses(expenses_data, splits_data)
        payments       == load_payments(payments_data)
        group_expenses == group_records(expenses, Len(expenses), gid)
        group_payments == group_records(payments, Len(payments), gid)
        after_expenses == process_expenses(group_expenses, Len(group_expenses))
    IN  round_all(process_payments(after_expenses, group_payments,
                                   Len(group_payments)))

calculate_balances(gid) ==
    calculate_balances_of(expenses_csv, splits_csv, payments_csv, gid)

\* mutant: a member who owes nothing and is owed something also counts as even
is_even_not_owing(balance) == balance >= 0

\* the test of the 'even' comprehension of get_group_summary
is_even(balance) == balance = 0

\* get_group_summary of a balance map
group_summary(bal) ==
    LET creditors  == SelectSeq(bal, LAMBDA e : e.balance > 0)
        debtors    == SelectSeq(bal, LAMBDA e : e.balance < 0)
        even       == SelectSeq(bal, LAMBDA e : is_even(e.balance))
        total_owed == SumValues(debtors)
        total_due  == SumValues(creditors)
    IN  [total_owed  |-> Abs(total_owed),
         total_due   |-> total_due,
         creditors   |-> creditors,
         debtors     |-> debtors,
         even        |-> even,
         is_balanced |-> Abs(total_owed) = total_due]

get_group_summary(gid) == group_summary(calculate_balances(gid))

\* mutant: the empty list is not turned away
no_splits_unchecked(splits) == FALSE

\* "if not splits"
no_splits(splits) == splits = <<>>

\* mutant: a total below the amount passes
exact_total_at_most(total, amount) == total <= amount

\* the exact rule: "if total != amount" fails the split
exact_total_ok(total, amount) == total = amount

\* mutant: a total within one cent of 100 passes
percent_total_near(total_percent) == Abs(total_percent - (100 * Unit)) <= Cent

\* the percent rule: "if total_percent != Decimal('100')" fails the split
percent_total_ok(total_percent) == total_percent = 100 * Unit

RECURSIVE to_decimal_sum(_, _)
\* sum(to_decimal(split['value']) for split in splits[:n])
to_decimal_sum(splits, n) ==
    IF n = 0 THEN 0
    ELSE to_decimal_sum(splits, n - 1) + to_decimal(splits[n].value)

\* the result (ok, reason) of a validation, or the exception it raises
verdict(ok, reason) == [raised |-> "none", ok |-> ok, reason |-> reason]

\* LedgerService.validate_expense_split(amount, splits), splits a list of
\* dicts with a share_type and a numeric value; splits[0] of an empty list
\* raises IndexError.  split['value'] != amount / len(splits) is compared as
\* value * len(splits) # amount.  A reason is given by its fixed words.
validate_expense_split(amount, splits) ==
    IF no_splits(splits) THEN verdict(FALSE, "No splits provided")
    ELSE IF Len(splits) = 0
    THEN [raised |-> "IndexError", ok |-> FALSE, reason |-> ""]
    ELSE LET split_type == splits[1].share_type
         IN  IF split_type = EQUAL
             THEN IF \E i \in 1..Len(splits) :
                        splits[i].value * Len(splits) # amount
                  THEN verdict(FALSE, "Equal split should be")
                  ELSE verdict(TRUE, "Valid split")
             ELSE IF split_type = EXACT
             THEN IF exact_total_ok(to_decimal_sum(splits, Len(splits)), amount)
                  THEN verdict(TRUE, "Valid split")
                  ELSE verdict(FALSE, "Exact splits sum to")
             ELSE IF split_type = PERCENT
             THEN IF percent_total_ok(to_decimal_sum(splits, Len(splits)))
                  THEN verdict(TRUE, "Valid split")
                  ELSE verdict(FALSE, "Percent splits sum to")
             ELSE verdict(FALSE, "Unknown split type")

(***************************************************************************)
(* services/settlement_service.py                                          *)
(***************************************************************************)
is_creditor(balance) == balance > 0

\* mutant: every member with a non-zero balance counts as a debtor
is_debtor_nonzero(balance) == balance # 0

is_debtor(balance) == balance < 0

\* mutant: the debt keeps its sign
debtor_amount_signed(balance) == balance

debtor_amount_of(balance) == Abs(balance)

\* {user: balance for user, balance in balances.items() if balance > 0}
RECURSIVE creditors_of(_, _)
creditors_of(bal, n) ==
    IF n = 0 THEN <<>>
    ELSE LET rest == creditors_of(bal, n - 1)
         IN  IF is_creditor(bal[n].balance)
             THEN Append(rest, [user |-> bal[n].user, amount |-> bal[n].balance])
             ELSE rest

\* {user: abs(balance) for user, balance in balances.items() if balance < 0}
RECURSIVE debtors_of(_, _)
debtors_of(bal, n) ==
    IF n = 0 THEN <<>>
    ELSE LET rest == debtors_of(bal, n - 1)
         IN  IF is_debtor(bal[n].balance)
             THEN Append(rest, [user |-> bal[n].user,
                                amount |-> debtor_amount_of(bal[n].balance)])
             ELSE rest

\* mutant: x is put before the items of its own amount
comes_before_strict(item, x) == item.amount > x.amount

\* where sorted(..., reverse=True) puts x among the items before it: after
\* every item whose amount is >= x's (the sort is stable)
comes_before(item, x) == item.amount >= x.amount

\* mutant: x is put after all the items before it
insert_sorted_last(s, x) == Append(s, x)

insert_sorted(s, x) ==
    LET k == Cardinality({i \in 1..Len(s) : comes_before(s[i], x)})
    IN  SubSeq(s, 1, k) \o <<x>> \o SubSeq(s, k + 1, Len(s))

\* mutant: the items are left in dict order
sorted_not(items, n) == SubSeq(items, 1, n)

\* sorted(items, key=lambda x: x[1], reverse=True)
RECURSIVE sorted_desc(_, _)
sorted_desc(items, n) ==
    IF n = 0 THEN <<>>
    ELSE insert_sorted(sorted_desc(items, n - 1), items[n])

\* mutant: the loop stops one creditor early
loop_cond_short(c_idx, c_list, d_idx, d_list) ==
    c_idx + 1 < Len(c_list) /\ d_idx < Len(d_list)

\* the while condition
loop_cond(c_idx, c_list, d_idx, d_list) ==
    c_idx < Len(c_list) /\ d_idx < Len(d_list)

\* mutant: the larger of the two remaining amounts is settled
settle_amount_max(creditor_amount, debtor_amount) ==
    round_money(Max(creditor_amount, debtor_amount))

\* settlement_amount = round_money(min(creditor_amount, debtor_amount))
settle_amount(creditor_amount, debtor_amount) ==
    round_money(Min(creditor_amount, debtor_amount))

\* mutant: a zero amount is emitted too
should_emit_nonnegative(amount) == amount >= 0

\* if settlement_amount > 0: settlements.append(...)
should_emit(amount) == amount > 0

\* mutant: one cent is taken off whatever was settled
remaining_after_one_cent(amount, settled) == amount - Cent

\* creditor_amount -= settlement_amount / debtor_amount -= settlement_amount
remaining_after(amount, settled) == amount - settled

\* if creditor_amount <= 0 / if debtor_amount <= 0: advance the index
is_settled(remaining) == remaining <= 0

\* mutant: the creditor is written into both fields
Settlement_creditor_twice(from_user, to_user, amount) ==
    [from_user |-> to_user, to_user |-> to_user, amount |-> amount]

Settlement(from_user, to_user, amount) ==
    [from_user |-> from_user, to_user |-> to_user, amount |-> amount]

\* the body of the while loop on the locals of suggest_settlements
loop_body(st) ==
    LET creditor == st.creditor_list[st.creditor_idx + 1]
        debtor   == st.debtor_list[st.debtor_idx + 1]
        amount   == settle_amount(creditor.amount, debtor.amount)
        creditor_amount == remaining_after(creditor.amount, amount)
        debtor_amount   == remaining_after(debtor.amount, amount)
    IN  [creditor_list |->
             IF is_settled(creditor_amount) THEN st.creditor_list
             ELSE [st.creditor_list EXCEPT
                       ![st.creditor_idx + 1].amount = creditor_amount],
         debtor_list |->
             IF is_settled(debtor_amount) THEN st.debtor_list
             ELSE [st.debtor_list EXCEPT
                       ![st.debtor_idx + 1].amount = debtor_amount],
         creditor_idx |->
             IF is_settled(creditor_amount) THEN st.creditor_idx + 1
             ELSE st.creditor_idx,
         debtor_idx |->
             IF is_settled(debtor_amount) THEN st.debtor_idx + 1
             ELSE st.debtor_idx,
         settlements |->
             IF should_emit(amount)
             THEN Append(st.settlements,
                         Settlement(debtor.user, creditor.user, amount))
             ELSE st.settlements]

\* the while loop, run for at most fuel iterations
RECURSIVE run_loop(_, _)
run_loop(st, fuel) ==
    IF fuel = 0
       \/ ~loop_cond(st.creditor_idx, st.creditor_list,
                     st.debtor_idx, st.debtor_list)
    THEN st
    ELSE run_loop(loop_body(st), fuel - 1)

\* suggest_settlements(balances) as a function of its argument: the list it
\* returns when the loop ends within MaxIter iterations
suggest_settlements(bal) ==
    LET creditors == creditors_of(bal, Len(bal))
        debtors   == debtors_of(bal, Len(bal))
    IN  run_loop([creditor_list |-> sorted_desc(creditors, Len(creditors)),
                  debtor_list   |-> sorted_desc(debtors, Len(debtors)),
                  creditor_idx  |-> 0,
                  debtor_idx    |-> 0,
                  settlements   |-> <<>>], MaxIter).settlements

RECURSIVE debt_sum(_, _)
\* sum(abs(balance) for balance in balances.values() if balance < 0)
debt_sum(bal, n) ==
    IF n = 0 THEN 0
    ELSE debt_sum(bal, n - 1)
         + (IF bal[n].balance < 0 THEN Abs(bal[n].balance) ELSE 0)

RECURSIVE amount_sum(_, _)
\* sum(settlement['amount'] for settlement in settlements)
amount_sum(settlement_list, n) ==
    IF n = 0 THEN 0
    ELSE amount_sum(settlement_list, n - 1) + settlement_list[n].amount

\* calculate_settlement_stats(balances, settlements): the efficiency is the
\* quotient num/den of two counts; the division by a count of 0 raises
\* ZeroDivisionError; an empty map gives the efficiency 0
calculate_settlement_stats(bal, settlement_list) ==
    LET non_zero == Len(SelectSeq(bal, LAMBDA e : e.balance # 0))
    IN  IF bal # <<>> /\ non_zero = 0
        THEN [raised |-> "ZeroDivisionError"]
        ELSE [raised            |-> "none",
              total_debt        |-> debt_sum(bal, Len(bal)),
              settlement_count  |-> Len(settlement_list),
              total_settlements |-> amount_sum(settlement_list,
                                               Len(settlement_list)),
              efficiency        |->
                  IF bal # <<>>
                  THEN [num |-> Len(settlement_list), den |-> non_zero]
                  ELSE [num |-> 0, den |-> 1]]

(***************************************************************************)
(* Inputs                                                                  *)
(***************************************************************************)
NoGroup == "none"

Groups == {"g1", "g2"}

\* 60.00 paid for A, B, C in equal shares of 20.00
equal_60(id, gid, payer) ==
    Expense(id, gid, payer, 60 * Unit, "Dinner",
            <<Split(id, "A", EQUAL, 20 * Unit), Split(id, "B", EQUAL, 20 * Unit),
              Split(id, "C", EQUAL, 20 * Unit)>>)

\* 100.00 split 50% / 30% / 20%
percent_100(id, gid, payer) ==
    Expense(id, gid, payer, 100 * Unit, "Groceries",
            <<Split(id, "A", PERCENT, 50 * Unit), Split(id, "B", PERCENT, 30 * Unit),
              Split(id, "C", PERCENT, 20 * Unit)>>)

\* 0.10 in three equal shares: 0.10 / 3 = 0.0333..., which Split quantizes
equal_thirds(id, gid, payer) ==
    Expense(id, gid, payer, 10 * Cent, "Candy",
            <<Split(id, "A", EQUAL, 33), Split(id, "B", EQUAL, 33),
              Split(id, "C", EQUAL, 33)>>)

\* 0.05 split 50% / 50%
percent_half(id, gid, payer) ==
    Expense(id, gid, payer, 5 * Cent, "Gum",
            <<Split(id, "A", PERCENT, 50 * Unit), Split(id, "B", PERCENT, 50 * Unit)>>)

\* 0.30 in exact shares 0.10 and 0.20
exact_30(id, gid, payer) ==
    Expense(id, gid, payer, 30 * Cent, "Stamps",
            <<Split(id, "A", EXACT, 10 * Cent), Split(id, "B", EXACT, 20 * Cent)>>)

ExpenseInputs(id) ==
    {equal_60(id, "g1", "A"), percent_100(id, "g1", "A"),
     equal_thirds(id, "g1", "C"), percent_half(id, "g1", "A"),
     exact_30(id, "g1", "C"), equal_60(id, "g2", "B")}

\* 20.00, and 0.014 as an amount that was not quantized by the caller
PaymentInputs ==
    {[group_id |-> "g1", from_user |-> "B", to_user |-> "A", amount |-> 20 * Unit],
     [group_id |-> "g1", from_user |-> "C", to_user |-> "A", amount |-> 14],
     [group_id |-> "g1", from_user |-> "A", to_user |-> "B", amount |-> 14],
     [group_id |-> "g2", from_user |-> "B", to_user |-> "A", amount |-> 20 * Unit]}

Users == {"A", "B", "C", "D", "E"}

UserOrder == <<"A", "B", "C", "D", "E">>

RawOrders == {<<"A", "B", "C">>, <<"C", "B", "A">>}

MoneyValues == {c * Cent : c \in (0 - MaxCents)..MaxCents}

RawValues == (0 - MaxMills)..MaxMills

make_map(order, f) ==
    [i \in 1..Len(order) |-> [user |-> order[i], balance |-> f[order[i]]]]

\* the argument is a balance map of Money values over five members, or a
\* balance map of arbitrary Decimal values over three members, in either of
\* two insertion orders
IsInputMap(bal) ==
    \/ \E f \in [Users -> MoneyValues] : bal = make_map(UserOrder, f)
    \/ \E o \in RawOrders : \E f \in [{"A", "B", "C"} -> RawValues] :
          bal = make_map(o, f)
    \/ bal = <<>>

\* balance maps handed to suggest_settlements by a caller other than the
\* ledger: 0.005 against -0.012, 0.015 against -0.005, 0.012 against -0.012
DirectMaps ==
    {make_map(<<"A", "B">>, [A |-> 5, B |-> 0 - 12]),
     make_map(<<"A", "B">>, [A |-> 15, B |-> 0 - 5]),
     make_map(<<"A", "B">>, [A |-> 12, B |-> 0 - 12])}

\* expense ids a caller of save_expense may choose
ExpenseIds == 1..MaxExpenses

\* texts handed to to_decimal: every text of up to MaxText characters of
\* the alphabet, and the "10.555" of quick_test.py
Alphabet == {"0", "5", ".", "-", "n", "a"}

quick_test_text == <<"1", "0", ".", "5", "5", "5">>

TextInputs ==
    UNION {[1..n -> Alphabet] : n \in 0..MaxText} \cup {quick_test_text}

\* arguments of the validators: amounts 100.00, 0.20, 0.41 and 0.305;
\* split values 50, 49.995, 50.004, 50.005, 0.10 and 0.205
AmountInputs == {100 * Unit, 20 * Cent, 41 * Cent, 305}

SplitValues == {50 * Unit, 49995, 50004, 50005, 10 * Cent, 205}

ShareTypes == {EQUAL, EXACT, PERCENT, "weird"}

\* a list of split dicts: the first of type first_type, the others of type
\* rest_type
split_dicts(first_type, rest_type, values) ==
    [i \in 1..Len(values) |->
        [user_id    |-> UserOrder[i],
         share_type |-> IF i = 1 THEN first_type ELSE rest_type,
         value      |-> values[i]]]

IsSplitsInput(splits) ==
    \E n \in 0..MaxSplits : \E values \in [1..n -> SplitValues] :
        \E first_type \in ShareTypes : \E rest_type \in ShareTypes :
            splits = split_dicts(first_type, rest_type, values)

\* the Expense object built from the same amount and splits
expense_of(amount, splits) ==
    Expense("e1", "g1", "A", amount, "",
            [i \in 1..Len(splits) |->
                Split("e1", splits[i].user_id, splits[i].share_type,
                      splits[i].value)])

(***************************************************************************)
(* State machine                                                           *)
(***************************************************************************)
NoCall ==
    /\ creditor_list = <<>>
    /\ debtor_list = <<>>
    /\ creditor_idx = 0
    /\ debtor_idx = 0
    /\ settlement_amount = 0
    /\ settlements = <<>>
    /\ iterations = 0

NoResult == [kind |-> "none"]

NoStorage ==
    /\ expenses_csv = <<>>
    /\ splits_csv = <<>>
    /\ payments_csv = <<>>
    /\ expense_calls = <<>>
    /\ payment_calls = <<>>

NoMoneyCall ==
    /\ money_in = <<>>
    /\ money_out = NoResult
    /\ money_twice = NoResult

NoValidation ==
    /\ v_amount = 0
    /\ v_splits = <<>>
    /\ v_result = NoResult
    /\ v_verdict = FALSE

Init ==
    /\ NoStorage
    /\ pc = "idle"
    /\ group_id = NoGroup
    /\ balances = <<>>
    /\ NoCall
    /\ stats = NoResult
    /\ NoMoneyCall
    /\ NoValidation

\* CSVStorage.save_expense
save_expense(expense) ==
    /\ pc = "idle"
    /\ Len(expenses_csv) < MaxExpenses
    /\ expenses_csv' = Append(expenses_csv, expense_data(expense))
    /\ splits_csv' = splits_csv \o split_data(expense)
    /\ expense_calls' = Append(expense_calls, expense)
    /\ UNCHANGED <<payments_csv, payment_calls, pc, group_id, balances,
                   call_vars, other_vars>>

\* CSVStorage.save_payment
save_payment(payment_id, gid, from_user, to_user, amount) ==
    /\ pc = "idle"
    /\ Len(payments_csv) < MaxPayments
    /\ payments_csv' = Append(payments_csv,
                              payment_data(payment_id, gid, from_user, to_user, amount))
    /\ payment_calls' = Append(payment_calls,
                               [id |-> payment_id, group_id |-> gid,
                                from_user |-> from_user, to_user |-> to_user,
                                amount |-> amount])
    /\ UNCHANGED <<expenses_csv, splits_csv, expense_calls, pc, group_id,
                   balances, call_vars, other_vars>>

\* mutant: the calculation consumes the payments it has read
CalculateBalances_consuming(gid) ==
    /\ pc = "idle"
    /\ balances' = calculate_balances(gid)
    /\ group_id' = gid
    /\ pc' = "ready"
    /\ payments_csv' = <<>>
    /\ payment_calls' = <<>>
    /\ UNCHANGED <<expenses_csv, splits_csv, expense_calls, call_vars,
                   other_vars>>

\* balances = ledger_service.calculate_balances(group.id)
CalculateBalances(gid) ==
    /\ pc = "idle"
    /\ balances' = calculate_balances(gid)
    /\ group_id' = gid
    /\ pc' = "ready"
    /\ UNCHANGED <<storage_vars, call_vars, other_vars>>

\* suggest_settlements, up to the while loop
SuggestStart ==
    /\ pc = "ready"
    /\ LET creditors == creditors_of(balances, Len(balances))
           debtors   == debtors_of(balances, Len(balances))
       IN  /\ creditor_list' = sorted_desc(creditors, Len(creditors))
           /\ debtor_list' = sorted_desc(debtors, Len(debtors))
    /\ creditor_idx' = 0
    /\ debtor_idx' = 0
    /\ settlements' = <<>>
    /\ pc' = "loop"
    /\ UNCHANGED <<storage_vars, group_id, balances, settlement_amount,
                   iterations, other_vars>>

\* one execution of the while body
LoopStep ==
    /\ pc = "loop"
    /\ loop_cond(creditor_idx, creditor_list, debtor_idx, debtor_list)
    /\ LET creditor == creditor_list[creditor_idx + 1]
           debtor   == debtor_list[debtor_idx + 1]
           amount   == settle_amount(creditor.amount, debtor.amount)
           creditor_amount == remaining_after(creditor.amount, amount)
           debtor_amount   == remaining_after(debtor.amount, amount)
       IN  /\ settlement_amount' = amount
           /\ settlements' =
                IF should_emit(amount)
                THEN Append(settlements, Settlement(debtor.user, creditor.user, amount))
                ELSE settlements
           /\ IF is_settled(creditor_amount)
              THEN /\ creditor_idx' = creditor_idx + 1
                   /\ creditor_list' = creditor_list
              ELSE /\ creditor_idx' = creditor_idx
                   /\ creditor_list' =
                        [creditor_list EXCEPT ![creditor_idx + 1].amount = creditor_amount]
           /\ IF is_settled(debtor_amount)
              THEN /\ debtor_idx' = debtor_idx + 1
                   /\ debtor_list' = debtor_list
              ELSE /\ debtor_idx' = debtor_idx
                   /\ debtor_list' =
                        [debtor_list EXCEPT ![debtor_idx + 1].amount = debtor_amount]
    /\ iterations' = Min(iterations + 1, MaxIter)
    /\ UNCHANGED <<storage_vars, pc, group_id, balances, other_vars>>

\* the while condition fails: return settlements
LoopExit ==
    /\ pc = "loop"
    /\ ~loop_cond(creditor_idx, creditor_list, debtor_idx, debtor_list)
    /\ pc' = "done"
    /\ UNCHANGED <<storage_vars, group_id, balances, call_vars, other_vars>>

\* the caller is finished with the result
Return ==
    /\ pc = "done"
    /\ pc' = "idle"
    /\ group_id' = NoGroup
    /\ balances' = <<>>
    /\ creditor_list' = <<>>
    /\ debtor_list' = <<>>
    /\ creditor_idx' = 0
    /\ debtor_idx' = 0
    /\ settlement_amount' = 0
    /\ settlements' = <<>>
    /\ iterations' = 0
    /\ UNCHANGED <<storage_vars, other_vars>>

SaveExpense ==
    \E e \in ExpenseInputs(Len(expenses_csv) + 1) : save_expense(e)

SavePayment ==
    \E p \in PaymentInputs :
        save_payment(Len(payments_csv) + 1, p.group_id, p.from_user, p.to_user, p.amount)

Calculate == \E gid \in Groups : CalculateBalances(gid)

Next ==
    \/ SaveExpense
    \/ SavePayment
    \/ Calculate
    \/ SuggestStart
    \/ LoopStep
    \/ LoopExit
    \/ Return

Spec == Init /\ [][Next]_vars

\* suggest_settlements as a function of its argument: the call is made on
\* any balance map of the input set
InitSettle ==
    /\ NoStorage
    /\ pc = "ready"
    /\ group_id = NoGroup
    /\ IsInputMap(balances)
    /\ NoCall
    /\ stats = NoResult
    /\ NoMoneyCall
    /\ NoValidation

\* stats = calculate_settlement_stats(balances, settlements)
Stats ==
    /\ pc = "done"
    /\ stats' = calculate_settlement_stats(balances, settlements)
    /\ pc' = "stats"
    /\ UNCHANGED <<storage_vars, group_id, balances, call_vars,
                   money_vars, validate_vars>>

NextSettle ==
    \/ SuggestStart
    \/ LoopStep
    \/ LoopExit
    \/ Stats

SpecSettle == InitSettle /\ [][NextSettle]_vars

\* suggest_settlements called on a map that did not come from the ledger
Suggest(bal) ==
    /\ pc = "idle"
    /\ balances' = bal
    /\ pc' = "ready"
    /\ UNCHANGED <<storage_vars, group_id, call_vars, other_vars>>

SuggestDirect == \E bal \in DirectMaps : Suggest(bal)

\* the ledger and the settlement optimizer with both kinds of caller
NextCore ==
    \/ Next
    \/ SuggestDirect

SpecCore == Init /\ [][NextCore]_vars

\* every suggested settlement is recorded as a payment of the group, as
\* step 6 of the end-to-end run records one: storage.save_payment(id, group,
\* from_user, to_user, amount)
RecordSettlements ==
    /\ pc = "done"
    /\ group_id # NoGroup
    /\ payments_csv' = payments_csv \o
           [i \in 1..Len(settlements) |->
               payment_data(Len(payments_csv) + i, group_id,
                            settlements[i].from_user, settlements[i].to_user,
                            settlements[i].amount)]
    /\ payment_calls' = payment_calls \o
           [i \in 1..Len(settlements) |->
               [id |-> Len(payments_csv) + i, group_id |-> group_id,
                from_user |-> settlements[i].from_user,
                to_user |-> settlements[i].to_user,
                amount |-> settlements[i].amount]]
    /\ pc' = "recorded"
    /\ UNCHANGED <<expenses_csv, splits_csv, expense_calls, group_id,
                   balances, call_vars, other_vars>>

\* new_balances = ledger.calculate_balances(group)
Recalculate ==
    /\ pc = "recorded"
    /\ balances' = calculate_balances(group_id)
    /\ pc' = "closed"
    /\ UNCHANGED <<storage_vars, group_id, call_vars, other_vars>>

\* the ledger with a caller that pays what was suggested
NextClose ==
    \/ Next
    \/ RecordSettlements
    \/ Recalculate

SpecClose == Init /\ [][NextClose]_vars

\* the storage alone, the caller choosing the expense ids
SaveExpenseAs ==
    \E id \in ExpenseIds : \E e \in ExpenseInputs(id) : save_expense(e)

NextStorage ==
    \/ SaveExpenseAs
    \/ SavePayment

SpecStorage == Init /\ [][NextStorage]_vars

\* to_decimal and round_money as functions of a text
InitMoney ==
    /\ NoStorage
    /\ pc = "to_decimal"
    /\ group_id = NoGroup
    /\ balances = <<>>
    /\ NoCall
    /\ stats = NoResult
    /\ money_in \in TextInputs
    /\ money_out = NoResult
    /\ money_twice = NoResult
    /\ NoValidation

\* money_out = to_decimal(money_in); an exception ends the run
ToDecimal ==
    /\ pc = "to_decimal"
    /\ money_out' = to_decimal_text(money_in)
    /\ pc' = "converted"
    /\ UNCHANGED <<storage_vars, group_id, balances, call_vars, stats,
                   money_in, money_twice, validate_vars>>

\* money_twice = round_money(money_out)
RoundMoney ==
    /\ pc = "converted"
    /\ money_out.kind # "InvalidOperation"
    /\ money_twice' = round_money_again(money_out)
    /\ pc' = "rounded"
    /\ UNCHANGED <<storage_vars, group_id, balances, call_vars, stats,
                   money_in, money_out, validate_vars>>

NextMoney ==
    \/ ToDecimal
    \/ RoundMoney

SpecMoney == InitMoney /\ [][NextMoney]_vars

\* the two validators as functions of an amount and a list of splits
InitValidate ==
    /\ NoStorage
    /\ pc = "validate"
    /\ group_id = NoGroup
    /\ balances = <<>>
    /\ NoCall
    /\ stats = NoResult
    /\ NoMoneyCall
    /\ v_amount \in AmountInputs
    /\ IsSplitsInput(v_splits)
    /\ v_result = NoResult
    /\ v_verdict = FALSE

\* v_result = ledger_service.validate_expense_split(v_amount, v_splits)
ValidateExpenseSplit ==
    /\ pc = "validate"
    /\ v_result' = validate_expense_split(v_amount, v_splits)
    /\ pc' = "validate_splits"
    /\ UNCHANGED <<storage_vars, group_id, balances, call_vars, stats,
                   money_vars, v_amount, v_splits, v_verdict>>

\* v_verdict = Expense(..., v_amount, ..., splits).validate_splits()
ValidateSplits ==
    /\ pc = "validate_splits"
    /\ v_verdict' = validate_splits(expense_of(v_amount, v_splits))
    /\ pc' = "validated"
    /\ UNCHANGED <<storage_vars, group_id, balances, call_vars, stats,
                   money_vars, v_amount, v_splits, v_result>>

NextValidate ==
    \/ ValidateExpenseSplit
    \/ ValidateSplits

SpecValidate == InitValidate /\ [][NextValidate]_vars

(***************************************************************************)
(* Vocabulary of the properties                                            *)
(***************************************************************************)
IsMoneyMap(bal) == \A i \in 1..Len(bal) : bal[i].balance % Cent = 0

ZeroSum(bal) == SumValues(bal) = 0

RECURSIVE AmountsWhere(_, _, _, _)
\* sum of the amounts of the first n settlements whose field (from_user or
\* to_user) is the member u
AmountsWhere(list, n, field, u) ==
    IF n = 0 THEN 0
    ELSE AmountsWhere(list, n - 1, field, u)
         + (IF list[n][field] = u THEN list[n].amount ELSE 0)

Paid(u) == AmountsWhere(settlements, Len(settlements), "from_user", u)

Received(u) == AmountsWhere(settlements, Len(settlements), "to_user", u)

RECURSIVE TotalAmount(_, _)
TotalAmount(list, n) ==
    IF n = 0 THEN 0 ELSE TotalAmount(list, n - 1) + list[n].amount

TotalCredit(bal) == SumValues([i \in 1..Len(bal) |->
    [user |-> bal[i].user, balance |-> Max(bal[i].balance, 0)]])

TotalDebt(bal) == SumValues([i \in 1..Len(bal) |->
    [user |-> bal[i].user, balance |-> Max(0 - bal[i].balance, 0)]])

NonZero(bal) == {i \in 1..Len(bal) : bal[i].balance # 0}

Returned == pc = "done"

RECURSIVE SumSeq(_, _)
SumSeq(f, n) == IF n = 0 THEN 0 ELSE SumSeq(f, n - 1) + f[n]

\* what the stored expenses of group gid credit to the member u as payer
Credits(u, gid) ==
    SumSeq([i \in 1..Len(expenses_csv) |->
                IF expenses_csv[i].group_id = gid /\ expenses_csv[i].payer_id = u
                THEN expenses_csv[i].amount ELSE 0], Len(expenses_csv))

\* the share of one split row of one expense row: for a percent split the
\* whole number of cents nearest to amount * percentage / 100, a half going
\* up; otherwise the split value
ExpectedShare(expense_row, split_row) ==
    IF split_row.share_type = PERCENT
    THEN LET amount_cents == expense_row.amount \div Cent
             hundredths   == split_row.value \div Cent
         IN  Cent * (((2 * amount_cents * hundredths) + 10000) \div 20000)
    ELSE split_row.value

\* what the stored splits of the expenses of group gid debit to the member u
Debits(u, gid) ==
    SumSeq([j \in 1..Len(splits_csv) |->
                IF splits_csv[j].user_id = u
                THEN SumSeq([i \in 1..Len(expenses_csv) |->
                        IF /\ expenses_csv[i].id = splits_csv[j].expense_id
                           /\ expenses_csv[i].group_id = gid
                        THEN ExpectedShare(expenses_csv[i], splits_csv[j])
                        ELSE 0], Len(expenses_csv))
                ELSE 0], Len(splits_csv))

ExpenseMembers(gid) ==
    {expenses_csv[i].payer_id :
        i \in {k \in 1..Len(expenses_csv) : expenses_csv[k].group_id = gid}}
    \cup {splits_csv[j].user_id :
        j \in {k \in 1..Len(splits_csv) :
                 \E i \in 1..Len(expenses_csv) :
                    /\ expenses_csv[i].id = splits_csv[k].expense_id
                    /\ expenses_csv[i].group_id = gid}}

NoPayments(gid) == \A i \in 1..Len(payments_csv) : payments_csv[i].group_id # gid

RECURSIVE SetSum(_, _)
\* sum of the balances at the positions S of the map bal
SetSum(bal, S) ==
    IF S = {} THEN 0
    ELSE LET i == CHOOSE k \in S : TRUE
         IN  bal[i].balance + SetSum(bal, S \ {i})

RECURSIVE MaxZeroSumParts(_, _)
\* the largest number of zero-summing groups the positions S of a
\* zero-summing map can be divided into
MaxZeroSumParts(bal, S) ==
    IF S = {} THEN 0
    ELSE LET i     == CHOOSE k \in S : TRUE
             parts == {T \in SUBSET S : i \in T /\ SetSum(bal, T) = 0}
             sizes == {1 + MaxZeroSumParts(bal, S \ T) : T \in parts}
         IN  CHOOSE m \in sizes : \A k \in sizes : k <= m

\* the fewest transfers that bring every balance of a zero-summing map to 0:
\* the transfers of any such list connect the members into groups that each
\* sum to zero, and a group of k members needs at least k - 1 transfers
MinTransfers(bal) ==
    Cardinality(NonZero(bal)) - MaxZeroSumParts(bal, NonZero(bal))

(***************************************************************************)
(* Claims                                                                  *)
(***************************************************************************)

\* C1: for any stored expenses and payments, the values of the map returned
\* by calculate_balances sum to exactly 0, for every group.
C1_BalancesSumToZero ==
    \A gid \in Groups : SumValues(calculate_balances(gid)) = 0

\* C2 (as stated): on a zero-summing balance map, subtracting each settlement
\* amount from its from_user's balance and adding it to its to_user's balance
\* leaves every balance at exactly 0.
C2_SubtractFromPayerZeroes ==
    (Returned /\ ZeroSum(balances)) =>
        \A i \in 1..Len(balances) :
            balances[i].balance - Paid(balances[i].user)
                + Received(balances[i].user) = 0

\* C2 (amended): on a zero-summing balance map of 2-decimal values, adding
\* each settlement amount to its from_user's balance and subtracting it from
\* its to_user's balance (what calculate_balances does with a payment) leaves
\* every balance at exactly 0.
C2_CreditPayerZeroes ==
    (Returned /\ IsMoneyMap(balances) /\ ZeroSum(balances)) =>
        \A i \in 1..Len(balances) :
            balances[i].balance + Paid(balances[i].user)
                - Received(balances[i].user) = 0

C2_Witness ==
    /\ Returned /\ IsMoneyMap(balances) /\ ZeroSum(balances)
    /\ Len(settlements) >= 3
    /\ Cardinality(NonZero(balances)) = 5

\* C3: on a zero-summing map of 2-decimal values, the settlements paid by
\* each debtor sum to the absolute value of the debtor's balance and the
\* settlements received by each creditor sum to the creditor's balance.
C3_DebtsAndCreditsCovered ==
    (Returned /\ IsMoneyMap(balances) /\ ZeroSum(balances)) =>
        \A i \in 1..Len(balances) :
            LET u == balances[i].user
                b == balances[i].balance
            IN  /\ b < 0 => Paid(u) = Abs(b)
                /\ b > 0 => Received(u) = b

\* a debtor whose debt is covered by two settlements to different creditors
C3_Witness ==
    /\ Returned /\ IsMoneyMap(balances) /\ ZeroSum(balances)
    /\ \E i, j \in 1..Len(settlements) :
          /\ i # j
          /\ settlements[i].from_user = settlements[j].from_user
          /\ settlements[i].to_user # settlements[j].to_user

\* C4: no settlement has from_user = to_user, and no member is the from_user
\* of one settlement and the to_user of another.
C4_NoSelfDealing ==
    \A i, j \in 1..Len(settlements) :
        settlements[i].from_user # settlements[j].to_user

C4_Witness ==
    /\ Returned
    /\ Cardinality({settlements[i].from_user : i \in 1..Len(settlements)}) >= 2
    /\ Cardinality({settlements[i].to_user : i \in 1..Len(settlements)}) >= 2

\* C5: every settlement in the list has an amount > 0, and an execution of
\* the loop body whose quantized amount is 0 appends nothing.
C5_OnlyPositiveAmounts ==
    [][/\ \A i \in 1..Len(settlements') : settlements'[i].amount > 0
       /\ (pc = "loop" /\ pc' = "loop" /\ settlement_amount' = 0)
              => settlements' = settlements]_vars

\* the loop body ran with a quantized amount of 0 and nothing was appended
C5_Witness ==
    /\ pc = "loop"
    /\ iterations >= 1
    /\ settlement_amount = 0
    /\ settlements = <<>>

\* C6: calculate_balances credits each expense's payer with the full amount
\* and debits each split's member by the share (quantize(amount * percentage
\* / 100) for a percent split, the split value otherwise); a payer who also
\* participates ends with amount minus the own share.
C6_PayerCreditedSplitsDebited ==
    /\ \A gid \in Groups :
          NoPayments(gid) =>
              \A bal \in {calculate_balances(gid)} :
                  /\ Keys(bal) = ExpenseMembers(gid)
                  /\ \A u \in Users : Get(bal, u) = Credits(u, gid) - Debits(u, gid)
    /\ (expenses_csv = <<expense_data(equal_60(1, "g1", "A"))>> /\ payments_csv = <<>>)
          => calculate_balances("g1") =
                <<[user |-> "A", balance |-> 40 * Unit],
                  [user |-> "B", balance |-> 0 - (20 * Unit)],
                  [user |-> "C", balance |-> 0 - (20 * Unit)]>>
    /\ (expenses_csv = <<expense_data(percent_100(1, "g1", "A"))>> /\ payments_csv = <<>>)
          => calculate_balances("g1") =
                <<[user |-> "A", balance |-> 50 * Unit],
                  [user |-> "B", balance |-> 0 - (30 * Unit)],
                  [user |-> "C", balance |-> 0 - (20 * Unit)]>>

\* two expenses of one group, a percent split among them, the payer of one a
\* participant of it
C6_Witness ==
    /\ Len(expenses_csv) = 2
    /\ NoPayments("g1")
    /\ \A i \in 1..2 : expenses_csv[i].group_id = "g1"
    /\ \E j \in 1..Len(splits_csv) :
          /\ splits_csv[j].share_type = PERCENT
          /\ splits_csv[j].user_id = expenses_csv[splits_csv[j].expense_id].payer_id
    /\ expenses_csv[1].payer_id # expenses_csv[2].payer_id

\* C7: each payment of the group raises the from_user's balance by the
\* payment amount and lowers the to_user's balance by the same amount, so a
\* debtor paying a creditor exactly the debt ends at 0.00.  Stated of the
\* payment saved last, against the balances of the same storage without it;
\* every payment is the last one in the state its save_payment leads to.
C7_PaymentCreditsSender ==
    payments_csv # <<>> =>
        LET row     == payments_csv[Len(payments_csv)]
            earlier == SubSeq(payments_csv, 1, Len(payments_csv) - 1)
            amount  == to_decimal(row.amount)
        IN  \A gid \in Groups :
              \A after \in {calculate_balances(gid)} :
              \A before \in {calculate_balances_of(expenses_csv, splits_csv, earlier, gid)} :
              \A u \in Users :
                 Get(after, u)
                 = Get(before, u)
                   + (IF row.group_id = gid /\ row.from_user = u THEN amount ELSE 0)
                   - (IF row.group_id = gid /\ row.to_user = u THEN amount ELSE 0)

\* a member who owed 20.00 has paid 20.00 to a creditor and is now even
C7_Witness ==
    /\ Len(payments_csv) = 1
    /\ Len(expenses_csv) >= 1
    /\ LET row    == payments_csv[1]
           before == calculate_balances_of(expenses_csv, splits_csv, <<>>, row.group_id)
           after  == calculate_balances(row.group_id)
       IN  /\ Get(before, row.from_user) = 0 - to_decimal(row.amount)
           /\ Get(before, row.to_user) > 0
           /\ Get(after, row.from_user) = 0
           /\ HasKey(after, row.from_user)

C9_NothingToSettle ==
    (Returned /\ (TotalCredit(balances) = 0 \/ TotalDebt(balances) = 0)) =>
        settlements = <<>>

\* every member is owed something or even, and someone is owed something
C9_Witness ==
    /\ Returned
    /\ TotalDebt(balances) = 0
    /\ TotalCredit(balances) > 0
    /\ \E i \in 1..Len(balances) : balances[i].balance = 0

\* C10 (as stated): on a map that does not sum to zero the loop stops when a
\* list is exhausted, the settlements total the smaller of total credit and
\* total debt, and no member pays or receives more than the absolute value
\* of the own balance.
C10_UnbalancedSettlesSmallerSide ==
    (Returned /\ ~ZeroSum(balances)) =>
        /\ creditor_idx = Len(creditor_list) \/ debtor_idx = Len(debtor_list)
        /\ TotalAmount(settlements, Len(settlements))
              = Min(TotalCredit(balances), TotalDebt(balances))
        /\ \A i \in 1..Len(balances) :
              /\ Paid(balances[i].user) <= Abs(balances[i].balance)
              /\ Received(balances[i].user) <= Abs(balances[i].balance)

\* C10 (amended): the same, on a map of 2-decimal values that does not sum
\* to zero.
C10_UnbalancedMoneySettlesSmallerSide ==
    (Returned /\ IsMoneyMap(balances) /\ ~ZeroSum(balances)) =>
        /\ creditor_idx = Len(creditor_list) \/ debtor_idx = Len(debtor_list)
        /\ TotalAmount(settlements, Len(settlements))
              = Min(TotalCredit(balances), TotalDebt(balances))
        /\ \A i \in 1..Len(balances) :
              /\ Paid(balances[i].user) <= Abs(balances[i].balance)
              /\ Received(balances[i].user) <= Abs(balances[i].balance)

\* more is owed than is due: the creditors are exhausted first and a debtor
\* is left with part of the debt unsettled
C10_Witness ==
    /\ Returned /\ IsMoneyMap(balances)
    /\ TotalDebt(balances) > TotalCredit(balances)
    /\ TotalCredit(balances) > 0
    /\ creditor_idx = Len(creditor_list)
    /\ debtor_idx < Len(debtor_list)
    /\ Len(settlements) >= 2
    /\ \E i \in 1..Len(balances) :
          /\ balances[i].balance < 0
          /\ 0 < Paid(balances[i].user)
          /\ Paid(balances[i].user) < Abs(balances[i].balance)

(***************************************************************************)
(* Vocabulary of the properties of the money utilities, the validators,    *)
(* the stats and the storage                                               *)
(***************************************************************************)
\* the text writes a number: an optional sign, then digits, at most one
\* point among or around them, and at least one digit
IsNumeral(text) ==
    LET body == IF text # <<>> /\ text[1] \in {"-", "+"} THEN Tail(text) ELSE text
    IN  /\ \E i \in 1..Len(body) : IsDigit(body[i])
        /\ \E k \in 0..Len(body) :
              /\ \A i \in 1..k : IsDigit(body[i])
              /\ \/ k = Len(body)
                 \/ /\ body[k + 1] = "."
                    /\ \A i \in (k + 2)..Len(body) : IsDigit(body[i])

IsMoney(x) == x % Cent = 0

Members(submap) == {submap[i].user : i \in 1..Len(submap)}

RawSum(splits) == SumSeq([i \in 1..Len(splits) |-> splits[i].value], Len(splits))

\* the nearest whole number of cents, a half going away from zero
NearestCent(x) ==
    IF x >= 0 THEN Cent * ((x + 5) \div Cent) ELSE 0 - (Cent * (((0 - x) + 5) \div Cent))

RoundedSum(splits) ==
    SumSeq([i \in 1..Len(splits) |-> NearestCent(splits[i].value)], Len(splits))

AllMoney(amount, splits) ==
    IsMoney(amount) /\ \A i \in 1..Len(splits) : IsMoney(splits[i].value)

KnownType(t) == t \in {EQUAL, EXACT, PERCENT}

\* a non-empty list whose splits all have the share type t
AllOfType(splits, t) ==
    splits # <<>> /\ \A i \in 1..Len(splits) : splits[i].share_type = t

\* the rule of the list's share type (the type of its first split), on the
\* split values rounded to cents for the two rules that sum them
RuleHolds(amount, splits) ==
    LET t == splits[1].share_type
    IN  /\ t = EQUAL => \A i \in 1..Len(splits) : splits[i].value * Len(splits) = amount
        /\ t = EXACT => RoundedSum(splits) = amount
        /\ t = PERCENT => RoundedSum(splits) = 100 * Unit

DistinctIds ==
    \A i \in 1..Len(expense_calls) : \A j \in 1..Len(expense_calls) :
        i # j => expense_calls[i].id # expense_calls[j].id

\* the loaded expenses are the saved ones, in save order, field by field
ExpensesRoundTrip(loaded) ==
    /\ Len(loaded) = Len(expense_calls)
    /\ \A i \in 1..Len(loaded) :
          /\ loaded[i].id = expense_calls[i].id
          /\ loaded[i].group_id = expense_calls[i].group_id
          /\ loaded[i].payer_id = expense_calls[i].payer_id
          /\ loaded[i].amount = expense_calls[i].amount
          /\ loaded[i].description = expense_calls[i].description
          /\ Len(loaded[i].splits) = Len(expense_calls[i].splits)

\* the loaded payments are the saved ones but for the amount
PaymentsRoundTrip(loaded) ==
    /\ Len(loaded) = Len(payment_calls)
    /\ \A i \in 1..Len(loaded) :
          /\ loaded[i].id = payment_calls[i].id
          /\ loaded[i].group_id = payment_calls[i].group_id
          /\ loaded[i].from_user = payment_calls[i].from_user
          /\ loaded[i].to_user = payment_calls[i].to_user

\* C11 (as stated): to_decimal raises on every text that does not write a
\* number; no such text is turned into a value that is returned.
C11_NonNumberRaises ==
    pc \in {"converted", "rounded"} =>
        (~IsNumeral(money_in) => money_out.kind = "InvalidOperation")

\* C12: round_money(round_money(x)) = round_money(x) for every text x that
\* to_decimal turns into a number.
C12_RoundingIdempotent ==
    (pc = "rounded" /\ money_out.kind = "Decimal") => money_twice = money_out

C12_Witness ==
    /\ pc = "rounded"
    /\ money_in = <<"-", ".", "0", "0", "5">>
    /\ money_twice = [kind |-> "Decimal", value |-> 0 - Cent]

\* C13: the result of to_decimal on a text that writes the number num/den is
\* a multiple of 0.01 at most half a cent away from it, and when it is
\* exactly half a cent away it is the neighbour of larger magnitude (the
\* half is rounded up, not to the even cent); "10.555" gives 10.56.
C13_NearestCentHalfUp ==
    (pc = "converted" /\ money_out.kind = "Decimal") =>
        \A d \in {Decimal(money_in)} :
            LET r    == money_out.value
                dist == Abs((r * d.den) - d.num)
            IN  /\ IsMoney(r)
                /\ 2 * dist <= Cent * d.den
                /\ 2 * dist = Cent * d.den => Abs(r) * d.den > Abs(d.num)
                /\ money_in = quick_test_text => r = (10 * Unit) + (56 * Cent)

C13_Witness ==
    /\ pc = "converted"
    /\ money_in = <<".", "0", "0", "5">>
    /\ money_out = [kind |-> "Decimal", value |-> Cent]

\* C14: every value of the map returned by calculate_balances, for every
\* group and every storage content, and every amount of the settlements of
\* suggest_settlements, on balance maps of any values, is a multiple of 0.01.
C14_ResultsAreWholeCents ==
    /\ \A gid \in Groups : IsMoneyMap(calculate_balances(gid))
    /\ \A i \in 1..Len(settlements) : IsMoney(settlements[i].amount)

C14_Witness ==
    /\ pc = "done"
    /\ ~IsMoneyMap(balances)
    /\ settlements # <<>>
    /\ \E i \in 1..Len(payments_csv) : ~IsMoney(payments_csv[i].amount)

\* C15: get_group_summary puts each member of the balance map in exactly one
\* of creditors (balance > 0), debtors (balance < 0) and even (balance = 0);
\* total_owed is the sum of the absolute debtor balances, total_due the sum
\* of the creditor balances, and is_balanced is true exactly when the two
\* are equal.
C15_SummaryPartitions ==
    \A gid \in Groups :
        \A bal \in {calculate_balances(gid)} :
            \A s \in {group_summary(bal)} :
                /\ \A i \in 1..Len(bal) :
                      /\ bal[i].user \in Members(s.creditors) <=> bal[i].balance > 0
                      /\ bal[i].user \in Members(s.debtors) <=> bal[i].balance < 0
                      /\ bal[i].user \in Members(s.even) <=> bal[i].balance = 0
                /\ Members(s.creditors) \cup Members(s.debtors) \cup Members(s.even)
                      = Keys(bal)
                /\ Len(s.creditors) + Len(s.debtors) + Len(s.even) = Len(bal)
                /\ s.total_owed = TotalDebt(bal)
                /\ s.total_due = TotalCredit(bal)
                /\ s.is_balanced <=> (TotalDebt(bal) = TotalCredit(bal))

C15_Witness ==
    \E gid \in Groups :
        \A s \in {get_group_summary(gid)} :
            /\ s.creditors # <<>>
            /\ s.debtors # <<>>
            /\ s.even # <<>>
            /\ s.is_balanced

\* C16 (as stated): a list of percent splits is accepted, by either
\* validator, exactly when its percentages sum to exactly 100.
C16_PercentSumsTo100 ==
    (pc = "validated" /\ AllOfType(v_splits, PERCENT)) =>
        /\ v_result.ok <=> (RawSum(v_splits) = 100 * Unit)
        /\ v_verdict <=> (RawSum(v_splits) = 100 * Unit)

\* C16 (amended): a list of percent splits is accepted, by either validator,
\* exactly when its percentages, each rounded to two decimals, sum to
\* exactly 100.
C16_RoundedPercentSumsTo100 ==
    (pc = "validated" /\ AllOfType(v_splits, PERCENT)) =>
        /\ v_result.ok <=> (RoundedSum(v_splits) = 100 * Unit)
        /\ v_verdict <=> (RoundedSum(v_splits) = 100 * Unit)

C16_Witness ==
    /\ pc = "validated"
    /\ Len(v_splits) = 2
    /\ AllOfType(v_splits, PERCENT)
    /\ v_splits[1].value = 49995
    /\ v_splits[2].value = 50004
    /\ v_result.ok
    /\ v_verdict

\* C17 (as stated): a list of equal splits is accepted exactly when every
\* value is amount/N, a list of exact splits exactly when the values sum to
\* the amount, and the two validators agree on every amount and list.
C17_EqualExactRulesAgree ==
    (pc = "validated" /\ v_splits # <<>>) =>
        /\ AllOfType(v_splits, EQUAL) =>
              (v_result.ok <=> \A i \in 1..Len(v_splits) :
                                  v_splits[i].value * Len(v_splits) = v_amount)
        /\ AllOfType(v_splits, EXACT) =>
              (v_result.ok <=> (RawSum(v_splits) = v_amount))
        /\ v_result.ok <=> v_verdict

\* C17 (amended): the same, for an amount and split values of two decimals.
C17_EqualExactRulesAgreeOnMoney ==
    (pc = "validated" /\ v_splits # <<>> /\ AllMoney(v_amount, v_splits)) =>
        /\ AllOfType(v_splits, EQUAL) =>
              (v_result.ok <=> \A i \in 1..Len(v_splits) :
                                  v_splits[i].value * Len(v_splits) = v_amount)
        /\ AllOfType(v_splits, EXACT) =>
              (v_result.ok <=> (RawSum(v_splits) = v_amount))
        /\ v_result.ok <=> v_verdict

C17_Witness ==
    /\ pc = "validated"
    /\ v_amount = 20 * Cent
    /\ Len(v_splits) = 2
    /\ AllOfType(v_splits, EXACT)
    /\ v_splits[1].value = 10 * Cent
    /\ v_splits[2].value = 10 * Cent
    /\ v_result.ok
    /\ v_verdict

\* C18: validate_expense_split raises nothing and returns a result with a
\* non-empty reason; the result is False for an empty list, for an unknown
\* share type and for a list that breaks the rule of its type, and True for
\* a list that keeps it.
C18_ValidationNeverRaises ==
    pc \in {"validate_splits", "validated"} =>
        /\ v_result.raised = "none"
        /\ v_result.reason # ""
        /\ v_splits = <<>> => ~v_result.ok
        /\ v_splits # <<>> =>
              /\ ~KnownType(v_splits[1].share_type) => ~v_result.ok
              /\ KnownType(v_splits[1].share_type) =>
                    (v_result.ok <=> RuleHolds(v_amount, v_splits))

C18_Witness ==
    /\ pc = "validated"
    /\ v_splits = <<>>
    /\ v_result = [raised |-> "none", ok |-> FALSE, reason |-> "No splits provided"]

\* C19: calculate_settlement_stats returns a result for every balance map,
\* a non-empty map of zero balances included, with total_debt the sum of
\* the absolute negative balances, total_settlements the sum of the
\* settlement amounts and efficiency the settlement count divided by the
\* number of non-zero balances.
C19_StatsAlwaysReturned ==
    pc = "stats" =>
        /\ stats.raised = "none"
        /\ stats.total_debt = TotalDebt(balances)
        /\ stats.total_settlements = TotalAmount(settlements, Len(settlements))
        /\ NonZero(balances) # {} =>
              stats.efficiency.num * Cardinality(NonZero(balances))
                  = Len(settlements) * stats.efficiency.den

\* C20 (as stated): after any sequence of save_expense and save_payment
\* calls load_expenses returns one expense per call, in call order, with the
\* saved id, group, payer, amount, description and number of splits, and
\* load_payments one payment per call with the saved id, group, from_user,
\* to_user and amount.
C20_StorageRoundTrip ==
    /\ ExpensesRoundTrip(load_expenses(expenses_csv, splits_csv))
    /\ \A loaded \in {load_payments(payments_csv)} :
          /\ PaymentsRoundTrip(loaded)
          /\ \A i \in 1..Len(loaded) : loaded[i].amount = payment_calls[i].amount

\* C20 (amended): the same, for save_expense calls with distinct expense
\* ids, a loaded payment having the saved amount rounded to two decimals.
C20_StorageRoundTripDistinctIdsRounded ==
    /\ DistinctIds => ExpensesRoundTrip(load_expenses(expenses_csv, splits_csv))
    /\ \A loaded \in {load_payments(payments_csv)} :
          /\ PaymentsRoundTrip(loaded)
          /\ \A i \in 1..Len(loaded) :
                loaded[i].amount = NearestCent(payment_calls[i].amount)

C20_Witness ==
    /\ Len(expense_calls) = 2
    /\ DistinctIds
    /\ Len(expense_calls[1].splits) = 3
    /\ Len(expense_calls[2].splits) = 2
    /\ Len(payment_calls) = 1
    /\ payment_calls[1].amount = 14

\* the values of the splits of a list, in order
SplitValuesOf(splits) == [i \in 1..Len(splits) |-> splits[i].value]

\* C21 (as stated): every amount returned by load_payments, and every expense
\* amount and split value returned by load_expenses, equals the amount that
\* was handed to the save call.
C21_AmountsPreserved ==
    /\ \A loaded \in {load_payments(payments_csv)} :
          \A i \in 1..Len(loaded) : loaded[i].amount = payment_calls[i].amount
    /\ \A loaded \in {load_expenses(expenses_csv, splits_csv)} :
          \A i \in 1..Len(loaded) :
              /\ loaded[i].amount = expense_calls[i].amount
              /\ DistinctIds =>
                    SplitValuesOf(loaded[i].splits)
                        = SplitValuesOf(expense_calls[i].splits)

\* C21 (amended): the same for every amount of at most two decimals; a
\* payment amount of more decimals is loaded rounded half-up to two.
C21_MoneyAmountsPreserved ==
    /\ \A loaded \in {load_payments(payments_csv)} :
          \A i \in 1..Len(loaded) :
              /\ IsMoney(payment_calls[i].amount) =>
                    loaded[i].amount = payment_calls[i].amount
              /\ loaded[i].amount = NearestCent(payment_calls[i].amount)
    /\ \A loaded \in {load_expenses(expenses_csv, splits_csv)} :
          \A i \in 1..Len(loaded) :
              /\ loaded[i].amount = expense_calls[i].amount
              /\ DistinctIds =>
                    SplitValuesOf(loaded[i].splits)
                        = SplitValuesOf(expense_calls[i].splits)

C21_Witness ==
    /\ Len(payment_calls) = 1
    /\ payment_calls[1].amount = 20 * Unit
    /\ Len(expense_calls) = 2
    /\ expense_calls[1].amount = 5 * Cent
    /\ expense_calls[2].amount = 10 * Cent
    /\ DistinctIds

\* the caller holds a balance map that the ledger computed
HoldsLedgerMap == pc \in {"ready", "loop", "done"} /\ group_id # NoGroup

\* C22: the ledger engine and the settlement optimizer are pure. While
\* suggest_settlements runs the balance map it was given does not change;
\* calculate_balances leaves the stored expenses and payments as they were;
\* and, nothing being saved in between, a second call returns what the first
\* returned: the map held by the caller is still calculate_balances of the
\* group, and the list returned is suggest_settlements of the map.
C22_Pure ==
    /\ [](HoldsLedgerMap => balances = calculate_balances(group_id))
    /\ [](Returned => settlements = suggest_settlements(balances))
    /\ [][(pc \in {"ready", "loop"}) => UNCHANGED balances]_vars
    /\ [][(pc = "idle" /\ pc' = "ready") => UNCHANGED storage_vars]_vars

C22_Witness ==
    /\ Returned
    /\ group_id = "g1"
    /\ payments_csv # <<>>
    /\ Len(settlements) = 2
    /\ balances = calculate_balances(group_id)

\* C23: suggest_settlements terminates on every balance map of decimal
\* values: every execution of the loop body advances the creditor index, the
\* debtor index or both, so the body runs at most (number of creditors +
\* number of debtors) times.
C23_LoopAdvances ==
    /\ [][(pc = "loop" /\ pc' = "loop") =>
              \/ creditor_idx' > creditor_idx
              \/ debtor_idx' > debtor_idx]_vars
    /\ [](pc \in {"loop", "done"} =>
              iterations <= Len(creditor_list) + Len(debtor_list))

\* what is left of the member u's credit or debt after the settlements made
\* so far
Remaining(u) ==
    IF Get(balances, u) > 0
    THEN Get(balances, u) - Received(u)
    ELSE (0 - Get(balances, u)) - Paid(u)

UnsettledCreditors ==
    {u \in Keys(balances) : Get(balances, u) > 0 /\ Remaining(u) > 0}

UnsettledDebtors ==
    {u \in Keys(balances) : Get(balances, u) < 0 /\ Remaining(u) > 0}

\* the loop is about to match a creditor and a debtor
Matching ==
    /\ pc = "loop"
    /\ creditor_idx < Len(creditor_list)
    /\ debtor_idx < Len(debtor_list)

MatchedCreditor == creditor_list[creditor_idx + 1].user

MatchedDebtor == debtor_list[debtor_idx + 1].user

\* the position of the member u in the balance map
Position(u) == CHOOSE i \in 1..Len(balances) : balances[i].user = u

\* the amount the next iteration settles is the smaller of the two remaining
\* amounts, quantized to 2 decimals
SettlesMinimum ==
    [][(Matching /\ pc' = "loop") =>
          settlement_amount' =
              NearestCent(Min(Remaining(MatchedCreditor),
                              Remaining(MatchedDebtor)))]_vars

\* C24 (as stated): at every step the matched pair is the creditor with the
\* largest remaining amount and the debtor with the largest remaining amount
\* among those not yet settled, and the amount settled is the smaller of the
\* two remaining amounts quantized to 2 decimals.
C24_LargestRemaining ==
    /\ [](Matching =>
            /\ MatchedCreditor \in UnsettledCreditors
            /\ MatchedDebtor \in UnsettledDebtors
            /\ \A u \in UnsettledCreditors :
                  Remaining(u) <= Remaining(MatchedCreditor)
            /\ \A u \in UnsettledDebtors :
                  Remaining(u) <= Remaining(MatchedDebtor))
    /\ SettlesMinimum

\* u comes first in the sort made before the loop: by the size of the
\* balance, the member met first in the map going first among equals
SortedBefore(u, v) ==
    \/ Abs(Get(balances, u)) > Abs(Get(balances, v))
    \/ /\ Abs(Get(balances, u)) = Abs(Get(balances, v))
       /\ Position(u) < Position(v)

\* C24 (amended): at every step the matched pair is, among the creditors
\* and among the debtors not yet settled, the one with the largest balance
\* in the map (the first in map order among equals): a partly settled member
\* stays matched until it is settled. The amount settled is the smaller of
\* the two remaining amounts quantized to 2 decimals.
C24_LargestBalance ==
    /\ [](Matching =>
            /\ MatchedCreditor \in UnsettledCreditors
            /\ MatchedDebtor \in UnsettledDebtors
            /\ \A u \in UnsettledCreditors \ {MatchedCreditor} :
                  SortedBefore(MatchedCreditor, u)
            /\ \A u \in UnsettledDebtors \ {MatchedDebtor} :
                  SortedBefore(MatchedDebtor, u))
    /\ SettlesMinimum

C24_Witness ==
    /\ Matching
    /\ IsMoneyMap(balances)
    /\ settlements # <<>>
    /\ Received(MatchedCreditor) > 0
    /\ \E u \in UnsettledCreditors :
          Remaining(u) > Remaining(MatchedCreditor)

\* the members u and v are on the same side with equal balances, u met first
\* in the map
TiedInOrder(u, v) ==
    /\ Get(balances, u) = Get(balances, v)
    /\ Get(balances, u) # 0
    /\ Position(u) < Position(v)

\* the items of a sorted list that have equal amounts are in map order
TiesInMapOrder(list) ==
    \A i \in 1..Len(list) : \A j \in 1..Len(list) :
        (i < j /\ list[i].amount = list[j].amount) =>
            Position(list[i].user) < Position(list[j].user)

\* the member u has taken part in a settlement
Touched(u) == Paid(u) > 0 \/ Received(u) > 0

\* C25: the algorithm is deterministic on ties. Creditors (and debtors) of
\* equal amounts are placed by the sort in the order in which the input map
\* holds them and are processed in that order: the later one takes part in
\* a settlement only when the earlier one is settled. The list returned is
\* a function of the input map.
C25_TiesInMapOrder ==
    /\ (pc = "loop" /\ settlements = <<>> /\ iterations = 0) =>
          TiesInMapOrder(creditor_list) /\ TiesInMapOrder(debtor_list)
    /\ pc \in {"loop", "done"} =>
          \A u \in Keys(balances) : \A v \in Keys(balances) :
              (TiedInOrder(u, v) /\ Touched(v)) => Remaining(u) <= 0
    /\ Returned => settlements = suggest_settlements(balances)

C25_Witness ==
    /\ Returned
    /\ TiedInOrder("C", "A")
    /\ Get(balances, "C") > 0
    /\ settlements # <<>>
    /\ settlements[1].to_user = "C"

Creditors(bal) == {i \in 1..Len(bal) : bal[i].balance > 0}

Debtors(bal) == {i \in 1..Len(bal) : bal[i].balance < 0}

\* C26: for any balance map with a non-zero balance the list returned holds
\* at most (number of non-zero balances - 1) settlements: two for one
\* creditor and two debtors that sum to zero, at most three for two
\* creditors and two debtors.
C26_AtMostNonZeroLessOne ==
    (Returned /\ NonZero(balances) # {}) =>
        /\ Len(settlements) <= Cardinality(NonZero(balances)) - 1
        /\ ( /\ Cardinality(Creditors(balances)) = 1
             /\ Cardinality(Debtors(balances)) = 2
             /\ ZeroSum(balances)
             /\ IsMoneyMap(balances) ) => Len(settlements) = 2
        /\ ( /\ Cardinality(Creditors(balances)) = 2
             /\ Cardinality(Debtors(balances)) = 2 ) => Len(settlements) <= 3

C26_Witness ==
    /\ Returned
    /\ Cardinality(Creditors(balances)) = 2
    /\ Cardinality(Debtors(balances)) = 2
    /\ Len(settlements) = 3

\* the rows that the first n save_expense calls made for the group gid wrote
\* to splits.csv
RECURSIVE OwnSplits(_, _)
OwnSplits(gid, n) ==
    IF n = 0 THEN <<>>
    ELSE OwnSplits(gid, n - 1)
         \o (IF expense_calls[n].group_id = gid
             THEN split_data(expense_calls[n]) ELSE <<>>)

OwnExpenses(gid) == SelectSeq(expenses_csv, LAMBDA row : row.group_id = gid)

OwnPayments(gid) == SelectSeq(payments_csv, LAMBDA row : row.group_id = gid)

\* the members named by the records saved for the group gid
GroupMembers(gid) ==
    UNION {{expense_calls[i].payer_id}
           \cup {expense_calls[i].splits[j].user_id :
                    j \in 1..Len(expense_calls[i].splits)} :
           i \in {k \in 1..Len(expense_calls) : expense_calls[k].group_id = gid}}
    \cup UNION {{payment_calls[i].from_user, payment_calls[i].to_user} :
           i \in {k \in 1..Len(payment_calls) : payment_calls[k].group_id = gid}}

\* the map of the group gid is the map of its own records alone and holds
\* none but the members named in them
OwnRecordsOnly(gid) ==
    \A bal \in {calculate_balances(gid)} :
        /\ bal = calculate_balances_of(OwnExpenses(gid),
                                       OwnSplits(gid, Len(expense_calls)),
                                       OwnPayments(gid), gid)
        /\ Keys(bal) \subseteq GroupMembers(gid)

\* the storage before the last save_expense call, with the balance map
\* that the group gid had then
BeforeLastExpense(gid) ==
    LET n    == Len(expense_calls)
        rows == Len(split_data(expense_calls[n]))
    IN  calculate_balances_of(SubSeq(expenses_csv, 1, n - 1),
                              SubSeq(splits_csv, 1, Len(splits_csv) - rows),
                              payments_csv, gid)

BeforeLastPayment(gid) ==
    calculate_balances_of(expenses_csv, splits_csv,
                          SubSeq(payments_csv, 1, Len(payments_csv) - 1), gid)

\* the last expense and the last payment saved, when they are of a group other
\* than gid, left the map of gid as it was
OtherSavesChangeNothing(gid) ==
    \A bal \in {calculate_balances(gid)} :
        /\ (expense_calls # <<>>
              /\ expense_calls[Len(expense_calls)].group_id # gid)
              => bal = BeforeLastExpense(gid)
        /\ (payment_calls # <<>>
              /\ payment_calls[Len(payment_calls)].group_id # gid)
              => bal = BeforeLastPayment(gid)

\* no expense id is used by expenses of two groups
NoIdSharedByGroups ==
    \A i \in 1..Len(expense_calls) : \A j \in 1..Len(expense_calls) :
        expense_calls[i].id = expense_calls[j].id =>
            expense_calls[i].group_id = expense_calls[j].group_id

\* C27 (as stated): calculate_balances(group_id) depends only on the records
\* of that group: saving an expense or a payment of another group leaves the
\* group's map unchanged, and the map is that of the group's own records,
\* without any member that appears only in other groups' records.
C27_OwnGroupOnly ==
    \A gid \in Groups : OwnRecordsOnly(gid) /\ OtherSavesChangeNothing(gid)

\* C27 (amended): the same, as long as no expense id is used by expenses of
\* two groups.
C27_OwnGroupOnlyUnsharedIds ==
    NoIdSharedByGroups =>
        \A gid \in Groups : OwnRecordsOnly(gid) /\ OtherSavesChangeNothing(gid)

C27_Witness ==
    /\ Len(expense_calls) = 2
    /\ expense_calls[1].group_id = "g1"
    /\ expense_calls[2].group_id = "g2"
    /\ Len(payment_calls) = 1
    /\ payment_calls[1].group_id = "g2"
    /\ NoIdSharedByGroups
    /\ Keys(calculate_balances("g1")) # {}

AllZero(bal) == \A i \in 1..Len(bal) : bal[i].balance = 0

\* C28: settling closes the ledger. From a ledger whose balances sum to
\* zero, once every suggested settlement is recorded as a payment from
\* from_user to to_user with its amount, the recomputed balance of every
\* member is 0.00 and suggest_settlements on the new balances returns the
\* empty list.
C28_SettlingCloses ==
    [][(pc = "recorded" /\ pc' = "closed" /\ ZeroSum(balances)) =>
          /\ Keys(balances) \subseteq Keys(balances')
          /\ AllZero(balances')
          /\ suggest_settlements(balances') = <<>>]_vars

C28_Witness ==
    /\ pc = "closed"
    /\ Len(settlements) = 2
    /\ Len(payments_csv) = 3
    /\ Cardinality(Keys(balances)) = 3
    /\ AllZero(balances)

\* the expenses of the group gid as calculate_balances loads them
GroupExpenses(gid) ==
    LET expenses == load_expenses(expenses_csv, splits_csv)
    IN  SelectSeq(expenses, LAMBDA e : e.group_id = gid)

\* the sum of the shares that calculate_balances debits for one expense
SharesDebited(expense) ==
    SumSeq([j \in 1..Len(expense.splits) |->
                share_amount(expense, expense.splits[j])],
           Len(expense.splits))

\* C29: if every expense of a group passes validate_splits, the shares
\* debited for each expense sum to the amount of that expense, and so the
\* balances of the group sum to zero.
C29_ValidSplitsSumToAmount ==
    \A gid \in Groups :
        \A expenses \in {GroupExpenses(gid)} :
            (\A i \in 1..Len(expenses) : validate_splits(expenses[i])) =>
                /\ \A i \in 1..Len(expenses) :
                      SharesDebited(expenses[i]) = expenses[i].amount
                /\ SumValues(calculate_balances(gid)) = 0

\* the sequence s with the items at i and i + 1 exchanged
Swap(s, i) == [s EXCEPT ![i] = s[i + 1], ![i + 1] = s[i]]

\* the two maps give every member the same balance
SameBalances(b1, b2) ==
    /\ Keys(b1) = Keys(b2)
    /\ \A u \in Keys(b1) : Get(b1, u) = Get(b2, u)

\* the rows i and i + 1 of splits.csv are splits of one expense
SplitsOfOneExpense(i) == splits_csv[i].expense_id = splits_csv[i + 1].expense_id

\* the storage is at rest: every content the files ever have is seen so
StorageAtRest == pc \in {"idle", "recorded"}

\* C30: the balance map does not depend on the order of the expense records,
\* of the payment records or of the splits inside an expense. Exchanging
\* two neighbouring records, which generates every permutation, leaves the
\* balance of every member of every group as it is.
C30_OrderIndependent ==
    StorageAtRest =>
        \A gid \in Groups :
            \A bal \in {calculate_balances(gid)} :
                /\ \A i \in 1..(Len(expenses_csv) - 1) :
                      SameBalances(bal,
                          calculate_balances_of(Swap(expenses_csv, i),
                                                splits_csv, payments_csv, gid))
                /\ \A i \in 1..(Len(payments_csv) - 1) :
                      SameBalances(bal,
                          calculate_balances_of(expenses_csv, splits_csv,
                                                Swap(payments_csv, i), gid))
                /\ \A i \in 1..(Len(splits_csv) - 1) :
                      SplitsOfOneExpense(i) =>
                          SameBalances(bal,
                              calculate_balances_of(expenses_csv,
                                                    Swap(splits_csv, i),
                                                    payments_csv, gid))

C30_Witness ==
    /\ pc = "recorded"
    /\ Len(expenses_csv) = 2
    /\ expenses_csv[1].group_id = expenses_csv[2].group_id
    /\ expenses_csv[1].payer_id # expenses_csv[2].payer_id
    /\ Len(payments_csv) = 3
    /\ payments_csv[1].amount # payments_csv[2].amount
    /\ \E i \in 1..(Len(splits_csv) - 1) :
          SplitsOfOneExpense(i) /\ splits_csv[i].value # splits_csv[i + 1].value

====
